---- MODULE Spec2Model ----
(***************************************************************************)
(* components/style/shared_lock.rs: SharedRwLock<T>, ReadGuard<T> and      *)
(* WriteGuard<T>.  Several payloads are protected by one parking_lot       *)
(* RwLock<()>; guards are proofs that the RwLock is held.                  *)
(*                                                                         *)
(* The state machine is the set of states that programs accepted by the    *)
(* compiler can reach: what the lifetimes in the signatures forbid (using  *)
(* or dropping a borrowed guard, dropping a borrowed wrapper) appears as   *)
(* the enabling condition of the corresponding action.                     *)
(***************************************************************************)
EXTENDS Integers, FiniteSets, Sequences, TLC

\* Bounds of the model.
NThreads == 2
MaxWrappers == 2
MaxGuards == 3
MaxVal == 1

Threads == 1..NThreads
Wrappers == 1..MaxWrappers
Handles == 1..MaxWrappers
Slots == 1..MaxGuards
Values == 0..MaxVal

VARIABLES
    rwlock,     \* SharedRwLock.rwlock: wrapper -> handle (0: no such wrapper)
    data,       \* SharedRwLock.data: wrapper -> payload
    owner,      \* the thread holding the wrapper (SharedRwLock<T> is not Sync)
    state,      \* the RwLock<()> of each handle: readers and writer
    guards,     \* slot -> ReadGuard / WriteGuard value (or NoGuard)
    frozen,     \* the slots borrowed by `&'a mut WriteGuard<'a, U>`
    pc,         \* thread -> "run" | "read" | "write" | "panicked"
    arg,        \* thread -> wrapper of the pending read()/write() call
    acc,        \* thread -> the payload reference obtained by deref / deref_mut
    obs,        \* thread -> the value read through the reference deref returned
    waiting     \* the threads inside read() / write(), in order of arrival

vars == <<rwlock, data, owner, state, guards, frozen, pc, arg, acc, obs,
          waiting>>

NoGuard == [kind |-> "none", inner_guard |-> "none", locked_data |-> 0,
            g |-> 0, src |-> 0, thread |-> 0]
NoAcc == [slot |-> 0, mode |-> "none"]
Unlocked == [readers |-> 0, writer |-> FALSE]

Live(s) == guards[s].kind # "none"
Mine(t, s) == guards[s].thread = t
IsRead(s) == guards[s].kind = "Read"
IsWrite(s) == guards[s].kind = "Write"
Exists(w) == rwlock[w] # 0
HandleOf(s) == rwlock[guards[s].locked_data]

\* The guard that owns the parking_lot guard which the proof of guard s
\* refers to (s itself for an Owned guard).
Root(s) == guards[s].g

\* Faulty variant: the guard downgrade returns does not borrow the Write
\* guard (its lifetime is not tied to &self).
Children_ButDowngraded(s) ==
    {c \in Slots : /\ Live(c) /\ guards[c].src = s
                   /\ ~(IsWrite(s) /\ guards[c].inner_guard = "Downgraded")}

\* Guards whose lifetime is bounded by a borrow of guard s.
Children(s) == {c \in Slots : Live(c) /\ guards[c].src = s}

\* Guards that hold `&'a SharedRwLock<T>` to wrapper w.
Borrowers(w) == {s \in Slots : guards[s].locked_data = w}

FreeSlots == {s \in Slots : ~Live(s)}
FreeSlot == CHOOSE s \in FreeSlots : \A s2 \in FreeSlots : s <= s2
\* Threads inside read() / write(): each will need a slot for its guard.
Pending == {t \in Threads : pc[t] \in {"read", "write"}}
SlotAvailable == Cardinality(FreeSlots) > Cardinality(Pending)
FreeWrappers == {w \in Wrappers : ~Exists(w)}
FreeWrapper == CHOOSE w \in FreeWrappers : \A w2 \in FreeWrappers : w <= w2
FreeHandles == {h \in Handles : \A w \in Wrappers : rwlock[w] # h}
FreshHandle == CHOOSE h \in FreeHandles : \A h2 \in FreeHandles : h <= h2

TypeOK ==
    /\ rwlock \in [Wrappers -> 0..MaxWrappers]
    /\ data \in [Wrappers -> Values]
    /\ owner \in [Wrappers -> 0..NThreads]
    /\ state \in [Handles -> [readers : 0..MaxGuards, writer : BOOLEAN]]
    /\ \A s \in Slots :
          /\ guards[s].kind \in {"none", "Read", "Write"}
          /\ guards[s].inner_guard \in
                {"none", "Owned", "Ref", "Downgraded", "RefMut"}
          /\ guards[s].locked_data \in 0..MaxWrappers
          /\ guards[s].g \in 0..MaxGuards
          /\ guards[s].src \in 0..MaxGuards
          /\ guards[s].thread \in 0..NThreads
    /\ frozen \in SUBSET Slots
    /\ pc \in [Threads -> {"run", "read", "write", "panicked"}]
    /\ arg \in [Threads -> 0..MaxWrappers]
    /\ acc \in [Threads -> [slot : 0..MaxGuards, mode : {"none", "r", "w"}]]
    /\ obs \in [Threads -> SUBSET Values]
    /\ waiting \in Seq(Threads)
    /\ {waiting[i] : i \in DOMAIN waiting} = Pending
    /\ Len(waiting) = Cardinality(Pending)

Init ==
    /\ rwlock = [w \in Wrappers |-> 0]
    /\ data = [w \in Wrappers |-> 0]
    /\ owner = [w \in Wrappers |-> 0]
    /\ state = [h \in Handles |-> Unlocked]
    /\ guards = [s \in Slots |-> NoGuard]
    /\ frozen = {}
    /\ pc = [t \in Threads |-> "run"]
    /\ arg = [t \in Threads |-> 0]
    /\ acc = [t \in Threads |-> NoAcc]
    /\ obs = [t \in Threads |-> {}]
    /\ waiting = <<>>

(***************************************************************************)
(* parking_lot::RwLock<()>                                                 *)
(***************************************************************************)

\* Faulty variant: readers exclude each other (a mutex in place of a read/write lock).
CanLockShared_Exclusive(l) == ~l.writer /\ l.readers = 0
\* RwLock::read(): a shared acquisition is admitted when no writer holds.
CanLockShared(l) == ~l.writer

\* Faulty variant: a writer is admitted while readers hold the lock.
CanLockExclusive_IgnoreReaders(l) == ~l.writer
\* RwLock::write(): admitted when neither readers nor a writer hold.
CanLockExclusive(l) == ~l.writer /\ l.readers = 0
LockShared(l) == [l EXCEPT !.readers = @ + 1]
LockExclusive(l) == [l EXCEPT !.writer = TRUE]
\* Drop of RwLockReadGuard / RwLockWriteGuard.
UnlockShared(l) == [l EXCEPT !.readers = @ - 1]
UnlockExclusive(l) == [l EXCEPT !.writer = FALSE]

(***************************************************************************)
(* Borrow rules that follow from the signatures.                           *)
(***************************************************************************)
\* `&guard`: the guard is not mutably borrowed.
SharedBorrowable(t, s) ==
    /\ Live(s) /\ Mine(t, s)
    /\ s \notin frozen
    /\ ~(acc[t].slot = s /\ acc[t].mode = "w")

\* Faulty variant: the guards derived from a guard do not borrow it.
MutBorrowable_IgnoreChildren(t, s) ==
    /\ Live(s) /\ Mine(t, s)
    /\ s \notin frozen
    /\ acc[t].slot # s

\* `&mut guard`, a move or a drop: the guard is not borrowed at all.
MutBorrowable(t, s) ==
    /\ Live(s) /\ Mine(t, s)
    /\ s \notin frozen
    /\ Children(s) = {}
    /\ acc[t].slot # s

\* Faulty variant: guards do not borrow the wrapper they reference.
WrapperUnborrowed_Always(w) == TRUE

\* A wrapper can be moved or dropped when no guard references it.
WrapperUnborrowed(w) == Borrowers(w) = {}

Running(t) == pc[t] = "run"

\* The queue of callers without thread t.
Leave(q, t) == SelectSeq(q, LAMBDA u : u # t)

(***************************************************************************)
(* SharedRwLock::new / new_with_same_lock, moving and dropping a wrapper   *)
(***************************************************************************)
New(t, v) ==
    /\ Running(t)
    /\ FreeWrappers # {}
    /\ rwlock' = [rwlock EXCEPT ![FreeWrapper] = FreshHandle]
    /\ data' = [data EXCEPT ![FreeWrapper] = v]
    /\ owner' = [owner EXCEPT ![FreeWrapper] = t]
    /\ UNCHANGED <<state, guards, frozen, pc, arg, acc, obs, waiting>>

\* Faulty variant: new_with_same_lock allocates a RwLock of its own
\* (Arc::new in place of self.rwlock.clone()).
NewWithSameLock_OwnLock(t, w, v) ==
    /\ Running(t)
    /\ Exists(w) /\ owner[w] = t
    /\ FreeWrappers # {}
    /\ rwlock' = [rwlock EXCEPT ![FreeWrapper] = FreshHandle]
    /\ data' = [data EXCEPT ![FreeWrapper] = v]
    /\ owner' = [owner EXCEPT ![FreeWrapper] = t]
    /\ UNCHANGED <<state, guards, frozen, pc, arg, acc, obs, waiting>>

NewWithSameLock(t, w, v) ==
    /\ Running(t)
    /\ Exists(w) /\ owner[w] = t
    /\ FreeWrappers # {}
    /\ rwlock' = [rwlock EXCEPT ![FreeWrapper] = rwlock[w]]
    /\ data' = [data EXCEPT ![FreeWrapper] = v]
    /\ owner' = [owner EXCEPT ![FreeWrapper] = t]
    /\ UNCHANGED <<state, guards, frozen, pc, arg, acc, obs, waiting>>

\* SharedRwLock<T> is Send but (holding an UnsafeCell) not Sync: a wrapper
\* reaches another thread only by being moved there, unborrowed.
SendWrapper(t, w, t2) ==
    /\ Running(t)
    /\ Exists(w) /\ owner[w] = t /\ t2 # t
    /\ WrapperUnborrowed(w)
    /\ pc[t2] # "panicked"
    /\ owner' = [owner EXCEPT ![w] = t2]
    /\ UNCHANGED <<rwlock, data, state, guards, frozen, pc, arg, acc, obs, waiting>>

DropWrapper(t, w) ==
    /\ pc[t] \in {"run", "panicked"}
    /\ Exists(w) /\ owner[w] = t
    /\ WrapperUnborrowed(w)
    /\ rwlock' = [rwlock EXCEPT ![w] = 0]
    /\ data' = [data EXCEPT ![w] = 0]
    /\ owner' = [owner EXCEPT ![w] = 0]
    /\ UNCHANGED <<state, guards, frozen, pc, arg, acc, obs, waiting>>

(***************************************************************************)
(* SharedRwLock::read / SharedRwLock::write                                *)
(***************************************************************************)
NewGuard(t, kind, inner, w, root, src) ==
    [kind |-> kind, inner_guard |-> inner, locked_data |-> w,
     g |-> root, src |-> src, thread |-> t]

\* The call is entered; the thread is inside self.rwlock.read().
ReadCall(t, w) ==
    /\ Running(t)
    /\ Exists(w) /\ owner[w] = t
    /\ SlotAvailable
    /\ pc' = [pc EXCEPT ![t] = "read"]
    /\ arg' = [arg EXCEPT ![t] = w]
    /\ waiting' = Append(waiting, t)
    /\ UNCHANGED <<rwlock, data, owner, state, guards, frozen, acc, obs>>

\* Faulty variant: read() takes a lock of the wrapper it is called on, not
\* the RwLock the wrapper shares with its siblings.
ReadAcquire_PerWrapper(t) ==
    /\ pc[t] = "read"
    /\ CanLockShared(state[arg[t]])
    /\ state' = [state EXCEPT ![arg[t]] = LockShared(@)]
    /\ guards' = [guards EXCEPT ![FreeSlot] =
                    NewGuard(t, "Read", "Owned", arg[t], FreeSlot, 0)]
    /\ pc' = [pc EXCEPT ![t] = "run"]
    /\ arg' = [arg EXCEPT ![t] = 0]
    /\ waiting' = Leave(waiting, t)
    /\ UNCHANGED <<rwlock, data, owner, frozen, acc, obs>>

\* self.rwlock.read() returns and the Owned ReadGuard is built.
ReadAcquire(t) ==
    /\ pc[t] = "read"
    /\ CanLockShared(state[rwlock[arg[t]]])
    /\ state' = [state EXCEPT ![rwlock[arg[t]]] = LockShared(@)]
    /\ guards' = [guards EXCEPT ![FreeSlot] =
                    NewGuard(t, "Read", "Owned", arg[t], FreeSlot, 0)]
    /\ pc' = [pc EXCEPT ![t] = "run"]
    /\ arg' = [arg EXCEPT ![t] = 0]
    /\ waiting' = Leave(waiting, t)
    /\ UNCHANGED <<rwlock, data, owner, frozen, acc, obs>>

WriteCall(t, w) ==
    /\ Running(t)
    /\ Exists(w) /\ owner[w] = t
    /\ SlotAvailable
    /\ pc' = [pc EXCEPT ![t] = "write"]
    /\ arg' = [arg EXCEPT ![t] = w]
    /\ waiting' = Append(waiting, t)
    /\ UNCHANGED <<rwlock, data, owner, state, guards, frozen, acc, obs>>

\* Faulty variant: a reentrant lock, which admits a writer when every
\* acquisition of the lock is the caller's own.
WriteAcquire_Reentrant(t) ==
    /\ pc[t] = "write"
    /\ \A s \in Slots :
          (/\ Live(s) /\ guards[s].inner_guard = "Owned"
           /\ HandleOf(s) = rwlock[arg[t]]) => Mine(t, s)
    /\ state' = [state EXCEPT ![rwlock[arg[t]]] = LockExclusive(@)]
    /\ guards' = [guards EXCEPT ![FreeSlot] =
                    NewGuard(t, "Write", "Owned", arg[t], FreeSlot, 0)]
    /\ pc' = [pc EXCEPT ![t] = "run"]
    /\ arg' = [arg EXCEPT ![t] = 0]
    /\ waiting' = Leave(waiting, t)
    /\ UNCHANGED <<rwlock, data, owner, frozen, acc, obs>>

WriteAcquire(t) ==
    /\ pc[t] = "write"
    /\ CanLockExclusive(state[rwlock[arg[t]]])
    /\ state' = [state EXCEPT ![rwlock[arg[t]]] = LockExclusive(@)]
    /\ guards' = [guards EXCEPT ![FreeSlot] =
                    NewGuard(t, "Write", "Owned", arg[t], FreeSlot, 0)]
    /\ pc' = [pc EXCEPT ![t] = "run"]
    /\ arg' = [arg EXCEPT ![t] = 0]
    /\ waiting' = Leave(waiting, t)
    /\ UNCHANGED <<rwlock, data, owner, frozen, acc, obs>>

(***************************************************************************)
(* same_rwlock, read_with, write_with, downgrade                           *)
(***************************************************************************)

\* Faulty variant: the identity check lets every pair of locks pass.
same_rwlock_AlwaysTrue(a, b) == TRUE

same_rwlock(a, b) == a = b

\* Faulty variant: composing from a Ref guard points the new guard at that
\* guard instead of at the RwLockReadGuard it refers to.
ReadWithInner_PointsAtExisting(e, s) ==
    CASE e.inner_guard = "Owned" -> [inner_guard |-> "Ref", g |-> s]
      [] e.inner_guard = "Ref" -> [inner_guard |-> "Ref", g |-> s]
      [] e.inner_guard = "Downgraded" -> [inner_guard |-> "Downgraded", g |-> s]

\* match existing_guard.inner_guard of read_with: the variant of the new
\* guard and the guard its reference points to (s is existing's slot).
ReadWithInner(e, s) ==
    CASE e.inner_guard = "Owned" -> [inner_guard |-> "Ref", g |-> s]
      [] e.inner_guard = "Ref" -> [inner_guard |-> "Ref", g |-> e.g]
      [] e.inner_guard = "Downgraded" -> [inner_guard |-> "Downgraded", g |-> e.g]

\* match existing_guard.inner_guard of write_with.
WriteWithInner(e, s) ==
    CASE e.inner_guard = "Owned" -> [inner_guard |-> "RefMut", g |-> s]
      [] e.inner_guard = "RefMut" -> [inner_guard |-> "RefMut", g |-> e.g]

\* match self.inner_guard of downgrade.
DowngradeInner(e, s) ==
    CASE e.inner_guard = "Owned" -> [inner_guard |-> "Downgraded", g |-> s]
      [] e.inner_guard = "RefMut" -> [inner_guard |-> "Downgraded", g |-> e.g]

\* Faulty variant: read_with acquires the RwLock again (self.rwlock.read()).
read_with_Acquiring(t, w, s) ==
    /\ Running(t)
    /\ Exists(w) /\ owner[w] = t
    /\ IsRead(s) /\ SharedBorrowable(t, s)
    /\ SlotAvailable
    /\ IF same_rwlock(rwlock[w], HandleOf(s))
       THEN /\ CanLockShared(state[rwlock[w]])
            /\ state' = [state EXCEPT ![rwlock[w]] = LockShared(@)]
            /\ guards' = [guards EXCEPT ![FreeSlot] =
                  NewGuard(t, "Read", "Owned", w, FreeSlot, s)]
            /\ pc' = pc
       ELSE /\ pc' = [pc EXCEPT ![t] = "panicked"]
            /\ guards' = guards /\ state' = state
    /\ UNCHANGED <<rwlock, data, owner, frozen, arg, acc, obs, waiting>>

\* Faulty variant: the new guard keeps the existing guard's locked_data.
read_with_ExistingData(t, w, s) ==
    /\ Running(t)
    /\ Exists(w) /\ owner[w] = t
    /\ IsRead(s) /\ SharedBorrowable(t, s)
    /\ SlotAvailable
    /\ IF same_rwlock(rwlock[w], HandleOf(s))
       THEN /\ guards' = [guards EXCEPT ![FreeSlot] =
                  LET i == ReadWithInner(guards[s], s)
                  IN  NewGuard(t, "Read", i.inner_guard,
                               guards[s].locked_data, i.g, s)]
            /\ pc' = pc
       ELSE /\ pc' = [pc EXCEPT ![t] = "panicked"]
            /\ guards' = guards
    /\ UNCHANGED <<rwlock, data, owner, state, frozen, arg, acc, obs, waiting>>

read_with(t, w, s) ==
    /\ Running(t)
    /\ Exists(w) /\ owner[w] = t
    /\ IsRead(s) /\ SharedBorrowable(t, s)
    /\ SlotAvailable
    /\ IF same_rwlock(rwlock[w], HandleOf(s))
       THEN /\ guards' = [guards EXCEPT ![FreeSlot] =
                  LET i == ReadWithInner(guards[s], s)
                  IN  NewGuard(t, "Read", i.inner_guard, w, i.g, s)]
            /\ pc' = pc
       ELSE /\ pc' = [pc EXCEPT ![t] = "panicked"]
            /\ guards' = guards
    /\ UNCHANGED <<rwlock, data, owner, state, frozen, arg, acc, obs, waiting>>

\* `existing_guard: &'a mut WriteGuard<'a, U>`: the caller's borrow of the
\* existing guard lasts as long as the guard's own lifetime parameter, so
\* the guard stays borrowed whether or not the assertion holds.
write_with(t, w, s) ==
    /\ Running(t)
    /\ Exists(w) /\ owner[w] = t
    /\ IsWrite(s) /\ MutBorrowable(t, s)
    /\ SlotAvailable
    /\ frozen' = frozen \cup {s}
    /\ IF same_rwlock(rwlock[w], HandleOf(s))
       THEN /\ guards' = [guards EXCEPT ![FreeSlot] =
                  LET i == WriteWithInner(guards[s], s)
                  IN  NewGuard(t, "Write", i.inner_guard, w, i.g, s)]
            /\ pc' = pc
       ELSE /\ pc' = [pc EXCEPT ![t] = "panicked"]
            /\ guards' = guards
    /\ UNCHANGED <<rwlock, data, owner, state, arg, acc, obs, waiting>>

\* Faulty variant: downgrade converts the exclusive hold into a shared one.
downgrade_ToShared(t, s) ==
    /\ Running(t)
    /\ IsWrite(s) /\ SharedBorrowable(t, s)
    /\ SlotAvailable
    /\ state' = [state EXCEPT ![HandleOf(s)] = LockShared(UnlockExclusive(@))]
    /\ guards' = [guards EXCEPT ![FreeSlot] =
          LET i == DowngradeInner(guards[s], s)
          IN  NewGuard(t, "Read", i.inner_guard, guards[s].locked_data, i.g, s)]
    /\ UNCHANGED <<rwlock, data, owner, frozen, pc, arg, acc, obs, waiting>>

\* Faulty variant: downgrade takes the RwLock for reading
\* (self.locked_data.read()) instead of reusing the write acquisition.
downgrade_Reacquire(t, s) ==
    /\ Running(t)
    /\ IsWrite(s) /\ SharedBorrowable(t, s)
    /\ SlotAvailable
    /\ CanLockShared(state[HandleOf(s)])
    /\ state' = [state EXCEPT ![HandleOf(s)] = LockShared(@)]
    /\ guards' = [guards EXCEPT ![FreeSlot] =
          NewGuard(t, "Read", "Owned", guards[s].locked_data, FreeSlot, s)]
    /\ UNCHANGED <<rwlock, data, owner, frozen, pc, arg, acc, obs, waiting>>

downgrade(t, s) ==
    /\ Running(t)
    /\ IsWrite(s) /\ SharedBorrowable(t, s)
    /\ SlotAvailable
    /\ guards' = [guards EXCEPT ![FreeSlot] =
          LET i == DowngradeInner(guards[s], s)
          IN  NewGuard(t, "Read", i.inner_guard, guards[s].locked_data, i.g, s)]
    /\ UNCHANGED <<rwlock, data, owner, state, frozen, pc, arg, acc, obs, waiting>>

(***************************************************************************)
(* Deref for ReadGuard / WriteGuard, DerefMut for WriteGuard               *)
(***************************************************************************)

\* Faulty variant: a guard built on another thread can be dereferenced too
\* (the guards shared between threads).
deref_AnyThread(t, s) ==
    /\ Running(t)
    /\ Live(s) /\ s \notin frozen
    /\ acc[t] = NoAcc
    /\ acc' = [acc EXCEPT ![t] = [slot |-> s, mode |-> "r"]]
    /\ obs' = [obs EXCEPT ![t] = {data[guards[s].locked_data]}]
    /\ UNCHANGED <<rwlock, data, owner, state, guards, frozen, pc, arg, waiting>>

\* deref(&self) -> &T: the payload reference borrows the guard; obs is the
\* value the caller reads through it.
deref(t, s) ==
    /\ Running(t)
    /\ SharedBorrowable(t, s)
    /\ acc[t] = NoAcc
    /\ acc' = [acc EXCEPT ![t] = [slot |-> s, mode |-> "r"]]
    /\ obs' = [obs EXCEPT ![t] = {data[guards[s].locked_data]}]
    /\ UNCHANGED <<rwlock, data, owner, state, guards, frozen, pc, arg, waiting>>

\* Faulty variant: DerefMut is available on a ReadGuard as well.
deref_mut_OnAnyGuard(t, s) ==
    /\ Running(t)
    /\ MutBorrowable(t, s)
    /\ acc[t] = NoAcc
    /\ acc' = [acc EXCEPT ![t] = [slot |-> s, mode |-> "w"]]
    /\ UNCHANGED <<rwlock, data, owner, state, guards, frozen, pc, arg, obs, waiting>>

\* deref_mut(&mut self) -> &mut T.
deref_mut(t, s) ==
    /\ Running(t)
    /\ IsWrite(s) /\ MutBorrowable(t, s)
    /\ acc[t] = NoAcc
    /\ acc' = [acc EXCEPT ![t] = [slot |-> s, mode |-> "w"]]
    /\ UNCHANGED <<rwlock, data, owner, state, guards, frozen, pc, arg, obs, waiting>>

\* Faulty variant: the reference points into the payload of the wrapper whose
\* call acquired the RwLock, not into self.locked_data.
Target_OfRoot(t) == guards[Root(acc[t].slot)].locked_data

\* The payload the reference of thread t points into:
\* &*self.locked_data.data.get().
Target(t) == guards[acc[t].slot].locked_data

Store(t, v) ==
    /\ Running(t)
    /\ acc[t].mode = "w"
    /\ data' = [data EXCEPT ![Target(t)] = v]
    /\ UNCHANGED <<rwlock, owner, state, guards, frozen, pc, arg, acc, obs, waiting>>

\* The payload reference goes out of use.
EndAccess(t) ==
    /\ pc[t] \in {"run", "panicked"}
    /\ acc[t] # NoAcc
    /\ acc' = [acc EXCEPT ![t] = NoAcc]
    /\ obs' = [obs EXCEPT ![t] = {}]
    /\ UNCHANGED <<rwlock, data, owner, state, guards, frozen, pc, arg, waiting>>

(***************************************************************************)
(* Drop of a guard: only the Owned variants hold a parking_lot guard,      *)
(* whose drop releases the RwLock.                                         *)
(***************************************************************************)

\* Faulty variant: every guard releases on drop, whatever its variant.
Release_AnyVariant(l, e) ==
    CASE e.kind = "Read" -> UnlockShared(l)
      [] e.kind = "Write" -> UnlockExclusive(l)
      [] OTHER -> l

\* Faulty variant: the drop of an Owned Read guard keeps the shared
\* acquisition (the RwLockReadGuard is leaked).
Release_KeepShared(l, e) ==
    CASE e.inner_guard = "Owned" /\ e.kind = "Write" -> UnlockExclusive(l)
      [] OTHER -> l

Release(l, e) ==
    CASE e.inner_guard = "Owned" /\ e.kind = "Read" -> UnlockShared(l)
      [] e.inner_guard = "Owned" /\ e.kind = "Write" -> UnlockExclusive(l)
      [] OTHER -> l

DropGuard(t, s) ==
    /\ pc[t] \in {"run", "panicked"}
    /\ MutBorrowable(t, s)
    /\ state' = [state EXCEPT ![HandleOf(s)] = Release(@, guards[s])]
    /\ guards' = [guards EXCEPT ![s] = NoGuard]
    /\ UNCHANGED <<rwlock, data, owner, frozen, pc, arg, acc, obs, waiting>>

Next ==
    \E t \in Threads :
        \/ \E v \in Values : New(t, v)
        \/ \E w \in Wrappers, v \in Values : NewWithSameLock(t, w, v)
        \/ \E w \in Wrappers, t2 \in Threads : SendWrapper(t, w, t2)
        \/ \E w \in Wrappers : DropWrapper(t, w)
        \/ \E w \in Wrappers : ReadCall(t, w)
        \/ ReadAcquire(t)
        \/ \E w \in Wrappers : WriteCall(t, w)
        \/ WriteAcquire(t)
        \/ \E w \in Wrappers, s \in Slots : read_with(t, w, s)
        \/ \E w \in Wrappers, s \in Slots : write_with(t, w, s)
        \/ \E s \in Slots : downgrade(t, s)
        \/ \E s \in Slots : deref(t, s)
        \/ \E s \in Slots : deref_mut(t, s)
        \/ \E v \in Values : Store(t, v)
        \/ EndAccess(t)
        \/ \E s \in Slots : DropGuard(t, s)

Spec == Init /\ [][Next]_vars

(***************************************************************************)
(* Vocabulary of the properties                                            *)
(***************************************************************************)
OwnedReaders(h) == {s \in Slots : /\ IsRead(s)
                                  /\ guards[s].inner_guard = "Owned"
                                  /\ HandleOf(s) = h}
OwnedWriters(h) == {s \in Slots : /\ IsWrite(s)
                                  /\ guards[s].inner_guard = "Owned"
                                  /\ HandleOf(s) = h}
\* Threads inside read() / write() on a wrapper of handle h.
WaitingReaders(h) == {t \in Threads : pc[t] = "read" /\ rwlock[arg[t]] = h}
WaitingWriters(h) == {t \in Threads : pc[t] = "write" /\ rwlock[arg[t]] = h}

\* C1: per handle, at most one exclusive acquisition is outstanding and no
\* shared acquisition is outstanding together with it; the RwLock's state
\* agrees, so write() has returned only with no other root guard live.
C1_MutualExclusion ==
    \A h \in Handles :
        /\ Cardinality(OwnedWriters(h)) <= 1
        /\ OwnedWriters(h) # {} => OwnedReaders(h) = {}
        /\ state[h].writer <=> OwnedWriters(h) # {}
        /\ state[h].readers = Cardinality(OwnedReaders(h))

\* A thread is blocked in write() on a handle held by another thread's
\* Owned ReadGuard.
C1_Witness ==
    \E h \in Handles :
        \E t \in WaitingWriters(h), s \in OwnedReaders(h) :
            guards[s].thread # t

\* The proof of guard s is live: the guard it refers to is an Owned guard
\* of the same thread on the same handle, and the RwLock is held in its mode.
ProofLive(s) ==
    /\ Live(s) /\ Exists(guards[s].locked_data)
    /\ Live(Root(s))
    /\ guards[Root(s)].inner_guard = "Owned"
    /\ guards[Root(s)].thread = guards[s].thread
    /\ Exists(guards[Root(s)].locked_data)
    /\ HandleOf(Root(s)) = HandleOf(s)
    /\ IF IsWrite(Root(s))
       THEN state[HandleOf(s)].writer
       ELSE state[HandleOf(s)].readers > 0

Accessing == {t \in Threads : acc[t] # NoAcc}

\* C2: a thread holding a payload reference obtained from deref has a proof
\* whose root acquisition is still held, one obtained from deref_mut has a
\* proof whose root is a held exclusive acquisition, and no payload is
\* mutated while another thread accesses a payload of the same handle.
C2_AccessRequiresLiveProof ==
    /\ \A t \in Accessing :
          /\ Mine(t, acc[t].slot)
          /\ ProofLive(acc[t].slot)
          /\ acc[t].mode = "w" => IsWrite(Root(acc[t].slot))
    /\ \A t1 \in Accessing, t2 \in Accessing :
          (t1 # t2 /\ acc[t1].mode = "w")
              => rwlock[Target(t1)] # rwlock[Target(t2)]

\* A thread mutates a payload through a RefMut guard while another thread is
\* blocked in read() on the same handle.
C2_Witness ==
    \E t \in Accessing :
        /\ acc[t].mode = "w"
        /\ guards[acc[t].slot].inner_guard = "RefMut"
        /\ WaitingReaders(rwlock[Target(t)]) # {}

\* C6: a live Downgraded ReadGuard refers to a live Owned WriteGuard of its
\* thread whose exclusive acquisition is still held, and the guard it was
\* derived from is live.
C6_DowngradedWithinSource ==
    \A s \in Slots :
        guards[s].inner_guard = "Downgraded" =>
            /\ Live(guards[s].src) /\ s # guards[s].src
            /\ Live(Root(s)) /\ IsWrite(Root(s))
            /\ guards[Root(s)].inner_guard = "Owned"
            /\ guards[Root(s)].thread = guards[s].thread
            /\ Exists(guards[s].locked_data)
            /\ state[HandleOf(s)].writer

\* A Downgraded guard obtained by read_with from a downgrade() result is
\* being dereferenced.
C6_Witness ==
    \E t \in Accessing :
        LET s == acc[t].slot IN
        /\ guards[s].inner_guard = "Downgraded"
        /\ guards[guards[s].src].inner_guard = "Downgraded"
        /\ IsWrite(guards[guards[s].src].src)

\* C7: a guard produced by read_with / write_with (or downgrade) is live
\* only while the guard it was derived from and the wrapper it references
\* exist, and every live guard's acquisition is still held.
C7_ComposedWithinBorrowed ==
    \A s \in Slots :
        Live(s) =>
            /\ Exists(guards[s].locked_data)
            /\ guards[s].src # 0 =>
                  /\ Live(guards[s].src)
                  /\ guards[guards[s].src].thread = guards[s].thread
                  /\ Exists(guards[guards[s].src].locked_data)
                  /\ HandleOf(guards[s].src) = HandleOf(s)
                  /\ Root(guards[s].src) = Root(s)
            /\ ProofLive(s)

\* A chain write() -> write_with -> downgrade of three live guards.
C7_Witness ==
    \E s \in Slots :
        /\ guards[s].inner_guard = "Downgraded"
        /\ guards[guards[s].src].inner_guard = "RefMut"
        /\ guards[guards[guards[s].src].src].inner_guard = "Owned"

\* C9: read() is not blocked by other readers: a thread inside read() on a
\* handle with no write acquisition outstanding or pending can acquire,
\* whatever the number of readers; and while an Owned ReadGuard is live no
\* WriteGuard on that handle is.
C9_ReadersShare ==
    /\ \A t \in Threads :
          (/\ pc[t] = "read"
           /\ OwnedWriters(rwlock[arg[t]]) = {}
           /\ WaitingWriters(rwlock[arg[t]]) = {})
              => ENABLED ReadAcquire(t)
    /\ \A h \in Handles :
          OwnedReaders(h) # {} =>
              \A s \in Slots : IsWrite(s) => HandleOf(s) # h

\* Every thread holds an Owned ReadGuard on the same handle.
C9_Witness ==
    \E h \in Handles :
        \A t \in Threads : \E s \in OwnedReaders(h) : Mine(t, s)

\* A call of read_with / write_with on wrapper w with existing guard s.
Composes(t, w, s) == read_with(t, w, s) \/ write_with(t, w, s)

\* C3: read_with / write_with with a guard whose wrapper has another handle
\* abort on every call and leave both RwLocks and all guards as they were;
\* with a guard whose wrapper has the identical handle they return a guard.
C3_MismatchAborts ==
    [][\A t \in Threads, w \in Wrappers, s \in Slots :
          Composes(t, w, s) =>
              IF rwlock[w] # rwlock[guards[s].locked_data]
              THEN /\ pc'[t] = "panicked"
                   /\ UNCHANGED <<state, guards, rwlock, data>>
              ELSE /\ pc'[t] = "run"
                   /\ guards'[FreeSlot].kind # "none"
                   /\ \A s2 \in Slots : Live(s2) => guards'[s2] = guards[s2]
      ]_vars

\* A thread has aborted in read_with / write_with while it holds a guard
\* whose RwLock is still held.
C3_Witness ==
    \E t \in Threads, s \in Slots :
        /\ pc[t] = "panicked"
        /\ Mine(t, s) /\ ProofLive(s)

\* What read_with / write_with need from the caller, the RwLock aside.
CanCompose(t, w, s) ==
    /\ Running(t) /\ Exists(w) /\ owner[w] = t /\ SlotAvailable
    /\ \/ IsRead(s) /\ SharedBorrowable(t, s)
       \/ IsWrite(s) /\ MutBorrowable(t, s)
    /\ rwlock[w] = HandleOf(s)

\* C4: a successful read_with / write_with leaves the RwLock's state as it
\* was and returns at once; the call can be made whatever the RwLock's
\* state and whoever waits on it.
C4_CompositionNoAcquisition ==
    /\ [](\A t \in Threads, w \in Wrappers, s \in Slots :
            CanCompose(t, w, s) => ENABLED Composes(t, w, s))
    /\ [][\A t \in Threads, w \in Wrappers, s \in Slots :
            (Composes(t, w, s) /\ rwlock[w] = rwlock[guards[s].locked_data])
                => /\ state' = state
                   /\ pc' = pc
                   /\ guards'[FreeSlot].inner_guard # "Owned"
         ]_vars

\* A Ref guard was composed while another thread waits in write() on the
\* handle, which has the one reader of the root guard.
C4_Witness ==
    \E s \in Slots :
        /\ guards[s].inner_guard = "Ref"
        /\ state[HandleOf(s)].readers = 1
        /\ \E t \in WaitingWriters(HandleOf(s)) : ~Mine(t, s)

IsDowngraded(s) == guards[s].inner_guard = "Downgraded"

\* C5: downgrade() leaves the RwLock exclusively held, and while the
\* Downgraded guard is alive every other thread inside read() / write() on
\* that handle stays there.
C5_DowngradeKeepsExclusive ==
    /\ [][\A t \in Threads, s \in Slots :
            downgrade(t, s) =>
                /\ state' = state
                /\ state[HandleOf(s)] = [readers |-> 0, writer |-> TRUE]
         ]_vars
    /\ [][\A s \in Slots, t \in Threads :
            (/\ IsDowngraded(s) /\ IsDowngraded(s)'
             /\ t # guards[s].thread
             /\ t \in WaitingReaders(HandleOf(s)) \cup WaitingWriters(HandleOf(s)))
                => pc'[t] = pc[t] /\ arg'[t] = arg[t]
         ]_vars

\* A Downgraded guard is alive while other threads wait in read() on its
\* handle.
C5_Witness ==
    \E s \in Slots :
        /\ IsDowngraded(s)
        /\ \E t \in WaitingReaders(HandleOf(s)) : ~Mine(t, s)

\* C10: the guard read_with / write_with return references the wrapper they
\* were called on; a dereference reads that wrapper's payload, and a payload
\* changes only under a deref_mut reference into that very wrapper.
C10_ComposedGuardOwnPayload ==
    /\ [][\A t \in Threads, w \in Wrappers, s \in Slots :
            (Composes(t, w, s) /\ pc'[t] = "run")
                => guards'[FreeSlot].locked_data = w
         ]_vars
    /\ [](\A t \in Accessing :
            acc[t].mode = "r" => obs[t] = {data[Target(t)]})
    /\ [][\A w \in Wrappers :
            (Exists(w) /\ Exists(w)' /\ data'[w] # data[w])
                => \E t \in Accessing : acc[t].mode = "w" /\ Target(t) = w
         ]_vars

\* B.read_with(A.read()) is dereferenced and shows B's payload, which
\* differs from A's.
C10_Witness ==
    \E t \in Accessing :
        LET s == acc[t].slot IN
        /\ guards[s].inner_guard = "Ref"
        /\ guards[guards[s].src].locked_data # guards[s].locked_data
        /\ data[guards[guards[s].src].locked_data] # data[guards[s].locked_data]
        /\ obs[t] = {data[guards[s].locked_data]}

\* The WriteGuards whose proof is the exclusive acquisition of Owned guard r.
WriteChain(r) == {s \in Slots : IsWrite(s) /\ Root(s) = r}

\* C8 (as claimed): the source of a live write_with guard is unusable, and
\* along every chain of write_with derivations of a thread that has not
\* aborted exactly one WriteGuard is usable.
C8_ExactlyOneUsable ==
    /\ \A s \in Slots :
          guards[s].inner_guard = "RefMut" => guards[s].src \in frozen
    /\ \A r \in Slots :
          (/\ IsWrite(r) /\ guards[r].inner_guard = "Owned"
           /\ pc[guards[r].thread] # "panicked")
              => Cardinality(WriteChain(r) \ frozen) = 1

\* ---------------------------------------------------------------------------
\* The guard a read_with / write_with / downgrade step of thread t creates.
Created(t) ==
    {s \in Slots : ~Live(s) /\ guards'[s].kind # "none" /\ guards'[s].thread = t}

\* A read_with step of thread t on wrapper w with guard s whose handles match.
ReadWithMatch(t, w, s) ==
    /\ read_with(t, w, s)
    /\ rwlock[w] = HandleOf(s)

\* C11 (as stated): on a handle match read_with returns a Ref ("Borrowed")
\* guard on the token of the existing guard, whichever variant (Owned, Ref,
\* Downgraded) the existing guard has.
C11_AlwaysBorrowed ==
    [][\A t \in Threads, w \in Wrappers, s \in Slots :
         ReadWithMatch(t, w, s) =>
            \A n \in Created(t) :
               /\ guards'[n].inner_guard = "Ref"
               /\ guards'[n].g = Root(s)]_vars

\* C11 (amended): on a handle match read_with returns exactly one new Read
\* guard on the token of the existing guard (the RwLockReadGuard of an Owned
\* or Ref guard, the RwLockWriteGuard of a Downgraded one); its variant is
\* Ref when the existing guard is Owned or Ref, and Downgraded when the
\* existing guard is Downgraded.
C11_SameTokenVariantByExisting ==
    [][\A t \in Threads, w \in Wrappers, s \in Slots :
         ReadWithMatch(t, w, s) =>
            /\ Cardinality(Created(t)) = 1
            /\ \A n \in Created(t) :
                 /\ guards'[n].kind = "Read"
                 /\ guards'[n].g = Root(s)
                 /\ guards'[guards'[n].g].inner_guard = "Owned"
                 /\ guards'[n].inner_guard =
                       IF guards[s].inner_guard = "Downgraded"
                       THEN "Downgraded" ELSE "Ref"
                 /\ guards'[guards'[n].g].kind =
                       IF guards[s].inner_guard = "Downgraded"
                       THEN "Write" ELSE "Read"]_vars

\* Guards composed from a Ref guard and from a Downgraded guard: each is on
\* the token of the guard it was composed from.
C11_Witness ==
    \E n \in Slots :
       /\ Live(n) /\ guards[n].src # 0 /\ IsRead(guards[n].src)
       /\ guards[guards[n].src].inner_guard \in {"Ref", "Downgraded"}
       /\ guards[n].inner_guard = guards[guards[n].src].inner_guard
       /\ Root(n) = Root(guards[n].src)
       /\ guards[n].src # Root(n)

\* ---------------------------------------------------------------------------
\* C12: write/read round trip.  A value stored through the Write guard that
\* write() on a wrapper returned becomes that wrapper's payload and no other
\* payload changes; the payload then stays as it is through every step that
\* is not a store through a Write guard for that wrapper (the release of the
\* guard, the next read() included); read() on the wrapper returns an Owned
\* Read guard for that wrapper, and dereferencing a Read guard yields the
\* payload of its wrapper.  So the value read back is the value stored.
C12_RoundTrip ==
    [][/\ \A t \in Threads, v \in Values :
             (Store(t, v) /\ guards[acc[t].slot].inner_guard = "Owned") =>
                /\ IsWrite(acc[t].slot)
                /\ data'[guards[acc[t].slot].locked_data] = v
                /\ \A w \in Wrappers \ {guards[acc[t].slot].locked_data} :
                      data'[w] = data[w]
       /\ \A w \in Wrappers :
             (Exists(w) /\ Exists(w)' /\ data'[w] # data[w]) =>
                \E t \in Threads :
                   /\ acc[t].mode = "w" /\ acc'[t] = acc[t]
                   /\ IsWrite(acc[t].slot)
                   /\ guards[acc[t].slot].locked_data = w
       /\ \A t \in Threads :
             ReadAcquire(t) =>
                \A n \in Created(t) :
                   /\ guards'[n].kind = "Read"
                   /\ guards'[n].inner_guard = "Owned"
                   /\ guards'[n].locked_data = arg[t]
       /\ \A t \in Threads, s \in Slots :
             (deref(t, s) /\ IsRead(s)) =>
                obs'[t] = {data[guards[s].locked_data]}]_vars

\* A thread reads the payload through the guard read() returned while no
\* Write guard is live on the handle: the value it sees is the stored one.
C12_Witness ==
    \E t \in Threads, s \in Slots :
       /\ acc[t] = [slot |-> s, mode |-> "r"]
       /\ IsRead(s) /\ guards[s].inner_guard = "Owned"
       /\ OwnedWriters(HandleOf(s)) = {}
       /\ data[guards[s].locked_data] = MaxVal
       /\ obs[t] = {MaxVal}

(***************************************************************************)
(* A counter shared by a writer and readers: one wrapper made by new(0),   *)
(* which one thread increments through write() / deref_mut and the others  *)
(* read through read() / deref.  The wrapper is not Sync, so it is handed  *)
(* from thread to thread between uses.                                     *)
(***************************************************************************)
MaxCount == 3

Writer == 1

Readers == Threads \ {Writer}

Counter == 1

InitCounter ==
    /\ rwlock = [w \in Wrappers |-> IF w = Counter THEN 1 ELSE 0]
    /\ data = [w \in Wrappers |-> 0]
    /\ owner = [w \in Wrappers |-> IF w = Counter THEN Writer ELSE 0]
    /\ state = [h \in Handles |-> Unlocked]
    /\ guards = [s \in Slots |-> NoGuard]
    /\ frozen = {}
    /\ pc = [t \in Threads |-> "run"]
    /\ arg = [t \in Threads |-> 0]
    /\ acc = [t \in Threads |-> NoAcc]
    /\ obs = [t \in Threads |-> {}]
    /\ waiting = <<>>

\* *guard += 1 through the &mut T of deref_mut.
Increment(t) ==
    /\ acc[t].mode = "w"
    /\ data[Target(t)] < MaxCount
    /\ Store(t, data[Target(t)] + 1)

\* let x = *guard: the reader keeps the value, the &T goes out of use.
CopyOut(t) ==
    /\ Running(t)
    /\ acc[t].mode = "r"
    /\ acc' = [acc EXCEPT ![t] = NoAcc]
    /\ UNCHANGED <<rwlock, data, owner, state, guards, frozen, pc, arg, obs,
                   waiting>>

NextCounter ==
    \/ \E t, t2 \in Threads : SendWrapper(t, Counter, t2)
    \/ WriteCall(Writer, Counter)
    \/ WriteAcquire(Writer)
    \/ \E s \in Slots : deref_mut(Writer, s)
    \/ Increment(Writer)
    \/ acc[Writer].mode = "w" /\ EndAccess(Writer)
    \/ \E t \in Readers :
          \/ ReadCall(t, Counter)
          \/ ReadAcquire(t)
          \/ \E s \in Slots : deref(t, s)
          \/ CopyOut(t)
    \/ \E t \in Threads, s \in Slots : DropGuard(t, s)

SpecCounter == InitCounter /\ [][NextCounter]_vars

Dropped == {s \in Slots : Live(s) /\ guards'[s].kind = "none"}

\* The live guards of handle h.
GuardsOf(h) == {s \in Slots : Live(s) /\ HandleOf(s) = h}

\* C14: release by Owned guards only, once each.  The drop of an Owned Read
\* guard takes one reader off its handle, the drop of an Owned Write guard
\* leaves its handle unlocked, the drop of a Ref, RefMut or Downgraded guard
\* leaves every lock as it is; a lock changes in no other step than an
\* acquisition or the drop of an Owned guard of its handle; and a handle
\* with no live guard is unlocked.
C14_ReleaseByOwnedOnly ==
    /\ [](\A h \in Handles : GuardsOf(h) = {} => state[h] = Unlocked)
    /\ [][/\ \A s \in Dropped :
                LET e == guards[s]
                    h == HandleOf(s)
                IN  /\ Dropped = {s}
                    /\ \A h2 \in Handles \ {h} : state'[h2] = state[h2]
                    /\ (e.inner_guard = "Owned" /\ e.kind = "Read") =>
                          /\ state[h].readers > 0
                          /\ state'[h] = [state[h] EXCEPT
                                            !.readers = state[h].readers - 1]
                    /\ (e.inner_guard = "Owned" /\ e.kind = "Write") =>
                          /\ state[h].writer
                          /\ state'[h] = Unlocked
                    /\ e.inner_guard # "Owned" => state'[h] = state[h]
          /\ \A h \in Handles :
                state'[h] # state[h] =>
                   \/ \E s \in Dropped :
                         HandleOf(s) = h /\ guards[s].inner_guard = "Owned"
                   \/ \E t \in Threads :
                         /\ pc[t] \in {"read", "write"} /\ pc'[t] = "run"
                         /\ rwlock[arg[t]] = h
                         /\ \E n \in Created(t) :
                               guards'[n].inner_guard = "Owned"]_vars

\* The last guards of a locked handle are a composed guard about to be
\* dropped and the Owned guard it was composed from.
C14_Witness ==
    \E t \in Threads, s \in Slots :
       /\ Live(s) /\ guards[s].inner_guard \in {"Ref", "RefMut", "Downgraded"}
       /\ ENABLED DropGuard(t, s)
       /\ GuardsOf(HandleOf(s)) = {s, Root(s)}
       /\ state[HandleOf(s)] # Unlocked

\* ---------------------------------------------------------------------------
\* The live guards that hold an acquisition of handle h.
OwnedOf(h) == OwnedReaders(h) \cup OwnedWriters(h)

\* Thread t is inside read() or write() on a wrapper of handle h.
WaitsOn(t, h) ==
    /\ pc[t] \in {"read", "write"}
    /\ rwlock[arg[t]] = h

\* C15: exclusion is per lock domain, not per wrapper.  While a Write guard
\* returned by write() on a wrapper is live, the read() and write() calls of
\* the other threads on every wrapper of the same handle, the siblings
\* included, cannot return and stay where they are; a call on a wrapper of
\* another handle is held back by the guards of its own handle only: with no
\* writer there read() can return, with no guard there write() can return,
\* whatever guards are held on the other handles.
C15_ExclusionPerDomain ==
    /\ [](\A s \in Slots, t \in Threads :
             (/\ Live(s) /\ IsWrite(s) /\ guards[s].inner_guard = "Owned"
              /\ guards[s].thread # t
              /\ WaitsOn(t, HandleOf(s))) =>
                /\ ~ENABLED ReadAcquire(t)
                /\ ~ENABLED WriteAcquire(t))
    /\ [][\A s \in Slots, t \in Threads :
             (/\ Live(s) /\ IsWrite(s) /\ guards[s].inner_guard = "Owned"
              /\ guards[s].thread # t
              /\ WaitsOn(t, HandleOf(s))
              /\ guards'[s] = guards[s]) =>
                (pc'[t] = pc[t] /\ arg'[t] = arg[t])]_vars
    /\ [](\A t \in Threads, h \in Handles :
             WaitsOn(t, h) =>
                /\ (pc[t] = "read" /\ OwnedWriters(h) = {}) =>
                      ENABLED ReadAcquire(t)
                /\ (pc[t] = "write" /\ OwnedOf(h) = {}) =>
                      ENABLED WriteAcquire(t))

\* A thread holds the Write guard of write() on one wrapper while another
\* thread is inside read() or write() on a sibling wrapper.
C15_Witness ==
    \E s \in Slots, t \in Threads :
       /\ Live(s) /\ IsWrite(s) /\ guards[s].inner_guard = "Owned"
       /\ guards[s].thread # t
       /\ WaitsOn(t, HandleOf(s))
       /\ arg[t] # guards[s].locked_data

\* ---------------------------------------------------------------------------
\* The wrappers that come into existence in a step.
Made == {w \in Wrappers : ~Exists(w) /\ Exists(w)'}

\* The handles of the wrappers in existence.
HandlesInUse == {rwlock[w] : w \in {x \in Wrappers : Exists(x)}}

\* C16: lock domains are fixed at creation.  new() gives the wrapper a
\* handle that no wrapper in existence has, unlocked and without guards;
\* new_with_same_lock gives it the handle of the receiver; no step changes
\* the handle of a wrapper in existence; and the drop of a wrapper leaves
\* the handles of the other wrappers, every lock and every guard as they are.
C16_DomainsFixedAtCreation ==
    [][/\ \A w \in Wrappers :
             (Exists(w) /\ Exists(w)') => rwlock'[w] = rwlock[w]
       /\ \A t \in Threads, v \in Values :
             New(t, v) =>
                /\ Cardinality(Made) = 1
                /\ \A n \in Made :
                      /\ rwlock'[n] \notin HandlesInUse
                      /\ state'[rwlock'[n]] = Unlocked
                      /\ \A s \in Slots :
                            Live(s) => HandleOf(s) # rwlock'[n]
                      /\ data'[n] = v
       /\ \A t \in Threads, w \in Wrappers, v \in Values :
             NewWithSameLock(t, w, v) =>
                /\ Cardinality(Made) = 1
                /\ \A n \in Made :
                      /\ rwlock'[n] = rwlock[w]
                      /\ data'[n] = v
                /\ state' = state
       /\ \A w \in Wrappers :
             (Exists(w) /\ ~Exists(w)') =>
                /\ state' = state
                /\ guards' = guards
                /\ \A w2 \in Wrappers \ {w} :
                      rwlock'[w2] = rwlock[w2] /\ data'[w2] = data[w2]]_vars

\* Two sibling wrappers, one of them moved to another thread, with a guard
\* live on the lock they share.
C16_Witness ==
    \E a, b \in Wrappers :
       /\ a # b /\ Exists(a) /\ Exists(b)
       /\ rwlock[a] = rwlock[b]
       /\ owner[a] # owner[b]
       /\ GuardsOf(rwlock[a]) # {}

\* ---------------------------------------------------------------------------
\* Guard n was returned by downgrade() on the Write guard guards[n].src.
FromDowngrade(n) ==
    /\ Live(n) /\ IsRead(n) /\ guards[n].inner_guard = "Downgraded"
    /\ guards[n].src # 0 /\ IsWrite(guards[n].src)

\* C17: downgrade is synchronous and sees the current payload.  downgrade on
\* a Write guard the thread may borrow, Owned or RefMut, can always be taken,
\* whatever the lock state and whoever waits, and returns at once; the Read
\* guard it returns is for the wrapper of the Write guard, can be
\* dereferenced right away, and its deref yields the current payload of that
\* wrapper, the values stored through the Write guard included.
C17_DowngradeSynchronous ==
    /\ [](\A t \in Threads, s \in Slots :
             (/\ Running(t) /\ IsWrite(s) /\ SharedBorrowable(t, s)
              /\ SlotAvailable) => ENABLED downgrade(t, s))
    /\ [](\A n \in Slots :
             FromDowngrade(n) =>
                /\ guards[n].locked_data = guards[guards[n].src].locked_data
                /\ guards[n].thread = guards[guards[n].src].thread
                /\ Live(guards[n].src)
                /\ (Running(guards[n].thread) /\ acc[guards[n].thread] = NoAcc)
                      => ENABLED deref(guards[n].thread, n))
    /\ [][\A t \in Threads, s \in Slots :
             /\ downgrade(t, s) =>
                   /\ pc'[t] = "run"
                   /\ \A n \in Created(t) :
                         /\ FromDowngrade(n)' /\ guards'[n].src = s
                         /\ acc[t] = NoAcc => SharedBorrowable(t, n)'
             /\ (deref(t, s) /\ FromDowngrade(s)) =>
                   obs'[t] = {data[guards[guards[s].src].locked_data]}]_vars

\* A value was stored through a RefMut Write guard, the guard was downgraded
\* and the thread reads that value through the Read guard.
C17_Witness ==
    \E t \in Threads, n \in Slots :
       /\ FromDowngrade(n)
       /\ guards[guards[n].src].inner_guard = "RefMut"
       /\ acc[t] = [slot |-> n, mode |-> "r"]
       /\ obs[t] = {MaxVal}
       /\ data[guards[n].locked_data] = MaxVal
       /\ \E w \in Wrappers \ {guards[n].locked_data} :
             Exists(w) /\ data[w] # MaxVal

\* ---------------------------------------------------------------------------
\* The handles on which a Downgraded Read guard is live.
DowngradedViews == {HandleOf(n) : n \in {s \in Slots : Live(s) /\ IsDowngraded(s)}}

\* C18: a downgraded view is read-only.  While a Read guard that downgrade
\* returned, or one read_with composed from it, is live: the Write guard it
\* came from is live, neither deref_mut nor write_with can be
\* called on any Write guard of the handle, no thread holds a mutable
\* payload reference into the domain, and no payload of the domain changes
\* (a sibling wrapper nobody borrows may still be dropped with its payload).
C18_DowngradedViewReadOnly ==
    /\ [](\A n \in Slots :
             (Live(n) /\ IsDowngraded(n)) =>
                /\ Live(guards[n].src)
                /\ Live(Root(n)) /\ IsWrite(Root(n))
                /\ \A s \in Slots :
                      (Live(s) /\ IsWrite(s) /\ HandleOf(s) = HandleOf(n)) =>
                         /\ ~ENABLED deref_mut(guards[s].thread, s)
                         /\ \A w \in Wrappers :
                               ~ENABLED write_with(guards[s].thread, w, s)
                /\ \A t \in Threads :
                      acc[t].mode = "w" =>
                         HandleOf(acc[t].slot) # HandleOf(n))
    /\ [][\A h \in DowngradedViews :
             \A w \in Wrappers :
                (Exists(w) /\ Exists(w)' /\ rwlock[w] = h) =>
                   data'[w] = data[w]]_vars

\* A Read guard composed from a Downgraded guard is live, and so are the
\* Downgraded guard and the Write guard it came from.
C18_Witness ==
    \E n \in Slots :
       /\ Live(n) /\ IsDowngraded(n)
       /\ IsRead(guards[n].src) /\ IsDowngraded(guards[n].src)
       /\ IsWrite(guards[guards[n].src].src)
       /\ Live(guards[guards[n].src].src)

\* ---------------------------------------------------------------------------
\* Thread t is inside write() while holding an acquisition of the same
\* handle, or inside read() while holding the exclusive acquisition of it.
SelfBlocked(t) ==
    /\ pc[t] \in {"read", "write"}
    /\ \E s \in Slots :
          /\ Live(s) /\ Mine(t, s) /\ guards[s].inner_guard = "Owned"
          /\ HandleOf(s) = rwlock[arg[t]]
          /\ pc[t] = "read" => IsWrite(s)

\* C19: re-acquisition on the same thread self-deadlocks, composition does
\* not.  A thread inside write() that holds an Owned guard of the handle, or
\* inside read() that holds the Owned Write guard of the handle, cannot
\* return, and after every step it is in the same call holding the same
\* guards, so it never returns; read_with / write_with on a wrapper of the
\* handle with a guard the thread may borrow can always be taken and return
\* the new guard in the same step.
C19_SelfDeadlock ==
    /\ [](\A t \in Threads :
             SelfBlocked(t) =>
                ~ENABLED ReadAcquire(t) /\ ~ENABLED WriteAcquire(t))
    /\ [][\A t \in Threads :
             SelfBlocked(t) =>
                /\ pc'[t] = pc[t] /\ arg'[t] = arg[t]
                /\ \A s \in Slots : Mine(t, s) => guards'[s] = guards[s]
                /\ SelfBlocked(t)']_vars
    /\ [](\A t \in Threads, w \in Wrappers, s \in Slots :
             (/\ Running(t) /\ Exists(w) /\ owner[w] = t /\ SlotAvailable
              /\ Live(s) /\ rwlock[w] = HandleOf(s)) =>
                /\ (IsRead(s) /\ SharedBorrowable(t, s)) =>
                      ENABLED read_with(t, w, s)
                /\ (IsWrite(s) /\ MutBorrowable(t, s)) =>
                      ENABLED write_with(t, w, s))
    /\ [][\A t \in Threads, w \in Wrappers, s \in Slots :
             ((read_with(t, w, s) \/ write_with(t, w, s))
                 /\ rwlock[w] = HandleOf(s)) =>
                /\ pc'[t] = "run"
                /\ Created(t) # {}]_vars

\* A thread called write() on a wrapper while holding the Read guard of
\* read() on a sibling wrapper.
C19_Witness ==
    \E t \in Threads, s \in Slots :
       /\ pc[t] = "write"
       /\ Live(s) /\ Mine(t, s) /\ IsRead(s) /\ guards[s].inner_guard = "Owned"
       /\ HandleOf(s) = rwlock[arg[t]]
       /\ guards[s].locked_data # arg[t]

(***************************************************************************)
(* read() / write() under the admission policy of parking_lot's RwLock,    *)
(* which is task-fair: a reader does not overtake a writer that waits, and *)
(* a writer does not overtake a thread that waits.  The wrappers exist,    *)
(* siblings or not, and move between the threads; a thread calls read() /  *)
(* write() only while it holds no acquisition of the handle.               *)
(***************************************************************************)
\* The threads that entered read() / write() before thread t did.
AheadOf(t) ==
    {waiting[i] : i \in {j \in DOMAIN waiting :
                            \E k \in DOMAIN waiting : k > j /\ waiting[k] = t}}

\* Thread t holds no RwLockReadGuard / RwLockWriteGuard of the lock of w.
NoRootOn(t, w) ==
    \A s \in Slots :
       (Live(s) /\ Mine(t, s) /\ guards[s].inner_guard = "Owned") =>
          HandleOf(s) # rwlock[w]

HomeThread(w) == ((w - 1) % NThreads) + 1

InitFair ==
    /\ rwlock \in [Wrappers -> Handles]
    /\ \A w \in Wrappers : rwlock[w] <= w
    /\ data = [w \in Wrappers |-> 0]
    /\ owner = [w \in Wrappers |-> HomeThread(w)]
    /\ state = [h \in Handles |-> Unlocked]
    /\ guards = [s \in Slots |-> NoGuard]
    /\ frozen = {}
    /\ pc = [t \in Threads |-> "run"]
    /\ arg = [t \in Threads |-> 0]
    /\ acc = [t \in Threads |-> NoAcc]
    /\ obs = [t \in Threads |-> {}]
    /\ waiting = <<>>

ReadCallOnce(t, w) == NoRootOn(t, w) /\ ReadCall(t, w)

WriteCallOnce(t, w) == NoRootOn(t, w) /\ WriteCall(t, w)

FairReadAcquire(t) ==
    /\ pc[t] = "read"
    /\ \A u \in AheadOf(t) :
          ~(pc[u] = "write" /\ rwlock[arg[u]] = rwlock[arg[t]])
    /\ ReadAcquire(t)

FairWriteAcquire(t) ==
    /\ pc[t] = "write"
    /\ \A u \in AheadOf(t) : rwlock[arg[u]] # rwlock[arg[t]]
    /\ WriteAcquire(t)

NextFair ==
    \E t \in Threads :
        \/ \E w \in Wrappers, t2 \in Threads : SendWrapper(t, w, t2)
        \/ \E w \in Wrappers : ReadCallOnce(t, w)
        \/ FairReadAcquire(t)
        \/ \E w \in Wrappers : WriteCallOnce(t, w)
        \/ FairWriteAcquire(t)
        \/ \E s \in Slots : DropGuard(t, s)

\* Weak fairness of the scheduler: a call that can return does return.
SpecFair ==
    /\ InitFair
    /\ [][NextFair]_vars
    /\ \A t \in Threads :
          WF_vars(FairReadAcquire(t)) /\ WF_vars(FairWriteAcquire(t))

\* Every guard that holds an acquisition is eventually dropped.
RootsDropped ==
    \A s \in Slots : []<>(~(Live(s) /\ guards[s].inner_guard = "Owned"))

====
